---------------------------- MODULE Spec2Model ----------------------------
(***************************************************************************)
(* Model of the tax-bracket evaluator (tax_brackets.py), the bracket       *)
(* loader (loader.py) and the constant-withdrawal solvers (igwad.py).      *)
(*                                                                         *)
(* Numbers.  The program computes with Python floats.  The model computes  *)
(* with decimal fixed-point numbers: the integer v stands for v / ONE and  *)
(* ONE = 10^Digits.  Addition and subtraction are exact; a product or a    *)
(* quotient is rounded to the nearest representable number, as a float     *)
(* operation is (at a much finer grain).  float('inf') and nan are the     *)
(* two sentinels Inf and NaN.                                              *)
(***************************************************************************)
EXTENDS Integers, Sequences, FiniteSets, TLC

(* ----------------------------- bounds ---------------------------------- *)
Digits == 3        \* decimal digits kept after the point
MaxRanges == 3     \* longest bracket table
MaxIters == 3      \* largest `iters` argument of reverse_tax
MaxSolverIters == 4 \* largest `iters` argument of the drawdown solvers
MaxYears == 3      \* longest drawdown horizon
MaxThreads == 2    \* threads calling reverse_tax
MaxCalls == 3      \* calls of reverse_tax in one run
MaxTakes == 2      \* times one distribution is taken

ONE == 10 ^ Digits

(* --------------------------- float model ------------------------------- *)
Inf == 2 ^ 30          \* float('inf'): above every finite number of the model
NaN == 0 - (2 ^ 30)    \* nan: the result of inf - inf and of inf * 0

Max(a, b) == IF a >= b THEN a ELSE b
Min(a, b) == IF a <= b THEN a ELSE b
Abs(a) == IF a < 0 THEN 0 - a ELSE a

\* n / d rounded to the nearest integer (d > 0), halves upwards
RoundDiv(n, d) == (2 * n + d) \div (2 * d)

\* float product of two finite numbers; split so that no intermediate
\* value leaves the 32-bit range
Mul(a, b) == (a \div ONE) * b + RoundDiv((a % ONE) * b, ONE)

\* float quotient of two finite numbers, b # 0 (the caller raises
\* ZeroDivisionError before dividing by 0)
Div(a, b) ==
    LET n == IF b < 0 THEN 0 - a ELSE a
        d == Abs(b)
    IN  (n \div d) * ONE + RoundDiv((n % d) * ONE, d)

\* float difference upper - lower where either may be infinite
FSub(u, l) ==
    IF u = Inf /\ l = Inf THEN NaN
    ELSE IF u = Inf THEN Inf
    ELSE IF l = Inf THEN 0 - Inf
    ELSE u - l

\* float product width * percent where width may be inf or nan
FMul(w, p) ==
    IF w = NaN THEN NaN
    ELSE IF w = Inf THEN (IF p = 0 THEN NaN ELSE Inf)
    ELSE Mul(w, p)

\* float sum where either may be inf or nan
FAdd(a, b) ==
    IF a = NaN \/ b = NaN THEN NaN
    ELSE IF a = Inf \/ b = Inf THEN Inf
    ELSE a + b

(* ------------------------------ TaxRange ------------------------------- *)
TaxRange(lower_bound, upper_bound, percent) ==
    [lower_bound |-> lower_bound, upper_bound |-> upper_bound, percent |-> percent]

\* the two assertions of TaxRange.__init__
TaxRangeAsserts(tr) ==
    /\ tr.upper_bound # NaN /\ tr.lower_bound # NaN
    /\ tr.upper_bound >= tr.lower_bound
    /\ 0 <= tr.percent /\ tr.percent <= ONE

\* the amount above the lower bound, not capped at the range's width
amount_in_range_Uncapped(tr, total) ==
    IF tr.lower_bound = Inf THEN 0 ELSE Max(total - tr.lower_bound, 0)

\* min(max(total - lower, 0), upper - lower); Python's min(x, nan) is x
amount_in_range(tr, total) ==
    LET over == IF tr.lower_bound = Inf THEN 0 ELSE Max(total - tr.lower_bound, 0)
        width == FSub(tr.upper_bound, tr.lower_bound)
    IN  IF width = NaN THEN over ELSE Min(over, width)

TaxRange_tax(tr, taxable_amount) == Mul(amount_in_range(tr, taxable_amount), tr.percent)

\* TaxRange.__lt__: a range is below a number when its upper bound is
TaxRange_lt(tr, other) == tr.upper_bound < other

(* ------------------------------ TaxBracket ----------------------------- *)
\* np.cumsum([0.] + [(x.upper - x.lower) * x.percent for x in ranges[:-1]])
RECURSIVE cumsum(_, _)
cumsum(trs, n) ==
    IF n = 1 THEN <<0>>
    ELSE LET prev == cumsum(trs, n - 1)
             amt == FMul(FSub(trs[n - 1].upper_bound, trs[n - 1].lower_bound),
                         trs[n - 1].percent)
         IN  Append(prev, FAdd(prev[n - 1], amt))

\* the assertions of TaxBracket.__init__, in order; "ok" when all pass
TaxBracketAsserts_NoGapCheck(trs) ==
    IF Len(trs) = 0 THEN "IndexError"
    ELSE IF trs[1].lower_bound # 0 THEN "Lower bound not 0"
    ELSE IF trs[Len(trs)].upper_bound # Inf THEN "Upper bound not infinity"
    ELSE "ok"
TaxBracketAsserts(trs) ==
    IF Len(trs) = 0 THEN "IndexError"
    ELSE IF trs[1].lower_bound # 0 THEN "Lower bound not 0"
    ELSE IF trs[Len(trs)].upper_bound # Inf THEN "Upper bound not infinity"
    ELSE IF \E i \in 1..(Len(trs) - 1) : trs[i].upper_bound # trs[i + 1].lower_bound
         THEN "Gap between lower and upper bounds"
    ELSE "ok"

NoBracket == [status |-> "none", tax_ranges |-> <<>>, cum_range_tax_amounts |-> <<>>]

\* TaxBracket(*tax_ranges): the constructed object, or the error raised
TaxBracket(trs) ==
    LET st == TaxBracketAsserts(trs)
    IN  IF st = "ok"
        THEN [status |-> "ok", tax_ranges |-> trs,
              cum_range_tax_amounts |-> cumsum(trs, Len(trs))]
        ELSE [status |-> st, tax_ranges |-> <<>>, cum_range_tax_amounts |-> <<>>]


(* ------------------------------ TaxResult ------------------------------ *)
TaxResult(full_amount, taxable_amount, margin, tax_paid, breakdown) ==
    [full_amount |-> full_amount, taxable_amount |-> taxable_amount,
     margin |-> margin, tax_paid |-> tax_paid, breakdown |-> breakdown]

\* what is left of the taxable amount
remaining_OfTaxable(res) == res.taxable_amount - res.tax_paid

remaining(res) == res.full_amount - res.tax_paid

(* ---------------------------- TaxBracket.tax --------------------------- *)
\* the walk with ranges that contribute nothing left out of the breakdown
RECURSIVE tax_walk_SkipsZero(_, _, _, _, _)
tax_walk_SkipsZero(trs, i, taxable_amount, margin, res) ==
    IF i > Len(trs) THEN res
    ELSE IF amount_in_range(trs[i], taxable_amount + margin) = 0 THEN res
    ELSE LET amount == TaxRange_tax(trs[i], taxable_amount + margin)
                         - TaxRange_tax(trs[i], margin)
         IN  tax_walk_SkipsZero(trs, i + 1, taxable_amount, margin,
                      IF amount = 0 THEN res
                      ELSE [res EXCEPT !.breakdown = Append(@, amount),
                                       !.tax_paid = @ + amount])

\* the loop over self.tax_ranges from range i on: stops at the first range
\* holding no money, otherwise appends the range's tax to the breakdown
RECURSIVE tax_walk(_, _, _, _, _)
tax_walk(trs, i, taxable_amount, margin, res) ==
    IF i > Len(trs) THEN res
    ELSE IF amount_in_range(trs[i], taxable_amount + margin) = 0 THEN res
    ELSE LET amount == TaxRange_tax(trs[i], taxable_amount + margin)
                         - TaxRange_tax(trs[i], margin)
         IN  tax_walk(trs, i + 1, taxable_amount, margin,
                      [res EXCEPT !.breakdown = Append(@, amount),
                                  !.tax_paid = @ + amount])

\* the margin branch as the docstring words it: tax(a+m) - tax(a)
RECURSIVE TaxBracket_tax_DocFormula(_, _, _, _)
TaxBracket_tax_DocFormula(trs, full_amount, deduction, margin) ==
    LET taxable_amount == full_amount - deduction
        tax == TaxResult(full_amount, taxable_amount, margin, 0, <<>>)
    IN  IF taxable_amount + margin <= 0 \/ margin < 0 THEN tax
        ELSE IF margin > 0
        THEN LET upper == TaxBracket_tax_DocFormula(trs, full_amount + margin, deduction, 0)
                 lower == TaxBracket_tax_DocFormula(trs, full_amount, deduction, 0)
             IN  [tax EXCEPT !.tax_paid = upper.tax_paid - lower.tax_paid]
        ELSE tax_walk(trs, 1, taxable_amount, margin, tax)

\* tax() with the deduction left out of the taxable amount
RECURSIVE TaxBracket_tax_IgnoresDeduction(_, _, _, _)
TaxBracket_tax_IgnoresDeduction(trs, full_amount, deduction, margin) ==
    LET taxable_amount == full_amount
        tax == TaxResult(full_amount, taxable_amount, margin, 0, <<>>)
    IN  IF taxable_amount + margin <= 0 \/ margin < 0 THEN tax
        ELSE IF margin > 0
        THEN LET upper == TaxBracket_tax_IgnoresDeduction(trs, full_amount + margin, deduction, 0)
                 lower == TaxBracket_tax_IgnoresDeduction(trs, margin, deduction, 0)
             IN  [tax EXCEPT !.tax_paid = upper.tax_paid - lower.tax_paid]
        ELSE tax_walk(trs, 1, taxable_amount, margin, tax)

\* the zero-result guard without its `margin < 0` half
RECURSIVE TaxBracket_tax_NoMarginGuard(_, _, _, _)
TaxBracket_tax_NoMarginGuard(trs, full_amount, deduction, margin) ==
    LET taxable_amount == full_amount - deduction
        tax == TaxResult(full_amount, taxable_amount, margin, 0, <<>>)
    IN  IF taxable_amount + margin <= 0 THEN tax
        ELSE IF margin > 0
        THEN LET upper == TaxBracket_tax_NoMarginGuard(trs, full_amount + margin, deduction, 0)
                 lower == TaxBracket_tax_NoMarginGuard(trs, margin, deduction, 0)
             IN  [tax EXCEPT !.tax_paid = upper.tax_paid - lower.tax_paid]
        ELSE tax_walk(trs, 1, taxable_amount, margin, tax)

RECURSIVE TaxBracket_tax(_, _, _, _)
TaxBracket_tax(trs, full_amount, deduction, margin) ==
    LET taxable_amount == full_amount - deduction
        tax == TaxResult(full_amount, taxable_amount, margin, 0, <<>>)
    IN  IF taxable_amount + margin <= 0 \/ margin < 0 THEN tax
        ELSE IF margin > 0
        THEN LET upper == TaxBracket_tax(trs, full_amount + margin, deduction, 0)
                 lower == TaxBracket_tax(trs, margin, deduction, 0)
             IN  [tax EXCEPT !.tax_paid = upper.tax_paid - lower.tax_paid]
        ELSE tax_walk(trs, 1, taxable_amount, margin, tax)

(* -------------------------- TaxBracket.fast_tax ------------------------ *)
\* bisect.bisect_left(self.tax_ranges, x) over lo..hi (0-based, hi excluded)
RECURSIVE bisect_left(_, _, _, _)
bisect_left(trs, x, lo, hi) ==
    IF lo >= hi THEN lo
    ELSE LET mid == (lo + hi) \div 2
         IN  IF TaxRange_lt(trs[mid + 1], x)
             THEN bisect_left(trs, x, mid + 1, hi)
             ELSE bisect_left(trs, x, lo, mid)

RECURSIVE fast_tax(_, _, _, _)
fast_tax(b, full_amount, deduction, margin) ==
    LET taxable_amount == full_amount - deduction
    IN  IF taxable_amount + margin <= 0 \/ margin < 0 THEN 0
        ELSE IF margin > 0
        THEN fast_tax(b, margin + full_amount, deduction, 0)
               - fast_tax(b, margin, deduction, 0)
        ELSE LET partial_index == bisect_left(b.tax_ranges, taxable_amount, 0,
                                              Len(b.tax_ranges))
                 partial_tr == b.tax_ranges[partial_index + 1]
                 partial_amount == Mul(taxable_amount - partial_tr.lower_bound,
                                       partial_tr.percent)
             IN  b.cum_range_tax_amounts[partial_index + 1] + partial_amount

(* ------------------------------- loader -------------------------------- *)
\* load_tax_bracket on the rows <<upper_bound, rate>> of a file, a blank upper
\* bound already read as Inf: each row's lower bound is the upper bound of the
\* row before, from 0; the first failing TaxRange assertion aborts the load
\* a cell of the upper_bound column: NaN is a blank cell
\* (if math.isnan(ub): ub = float('inf'))
row_upper_bound(cell) == IF cell = NaN THEN Inf ELSE cell

\* the loop over the rows with the lower bound never carried over
RECURSIVE load_ranges_NoCarry(_, _, _, _)
load_ranges_NoCarry(rows, i, lb, ranges) ==
    IF i > Len(rows) THEN [status |-> "ok", ranges |-> ranges]
    ELSE LET ub == row_upper_bound(rows[i][1])
             taxrange == TaxRange(lb, ub, rows[i][2])
         IN  IF ~TaxRangeAsserts(taxrange)
             THEN [status |-> "AssertionError", ranges |-> <<>>]
             ELSE load_ranges_NoCarry(rows, i + 1, lb, Append(ranges, taxrange))

\* the loop over the rows: TaxRange(lb, ub, rate), then lb = ub
RECURSIVE load_ranges(_, _, _, _)
load_ranges(rows, i, lb, ranges) ==
    IF i > Len(rows) THEN [status |-> "ok", ranges |-> ranges]
    ELSE LET ub == row_upper_bound(rows[i][1])
             taxrange == TaxRange(lb, ub, rows[i][2])
         IN  IF ~TaxRangeAsserts(taxrange)
             THEN [status |-> "AssertionError", ranges |-> <<>>]
             ELSE load_ranges(rows, i + 1, ub, Append(ranges, taxrange))

load_tax_bracket(rows) ==
    LET got == load_ranges(rows, 1, 0, <<>>)
    IN  IF got.status = "ok" THEN TaxBracket(got.ranges)
        ELSE [status |-> "AssertionError", tax_ranges |-> <<>>,
              cum_range_tax_amounts |-> <<>>]


(* ------------------------------- state --------------------------------- *)
VARIABLES
    pending,   \* the TaxRange objects built so far, the arguments of TaxBracket(...)
    bracket,   \* the TaxBracket: status, tax_ranges, cum_range_tax_amounts
    ev,        \* one evaluation: the arguments, and the results of tax and fast_tax
    rv,        \* one activation of reverse_tax
    fod,       \* one activation of find_optimal_distribution
    sec        \* one activation of find_optimal_distribution_secant

vars == <<pending, bracket, ev, rv, fod, sec>>

IdleEv == [called |-> {}, full_amount |-> 0, deduction |-> 0, margin |-> 0,
           result |-> TaxResult(0, 0, 0, 0, <<>>), fast |-> 0]
IdleRv == [pc |-> "idle"]
IdleFod == [pc |-> "idle"]
IdleSec == [pc |-> "idle"]

(* ----------------------- inputs of the model --------------------------- *)
\* bounds and percents handed to TaxRange(...) directly
BoundArgs == {0, 2 * ONE, 5 * ONE, Inf}
PercentArgs == {ONE \div 2, ONE + ONE \div 2}

\* rows of a bracket file
RowUpperBounds == {2 * ONE, 5 * ONE, NaN}
RowRates == {0, ONE \div 2, ONE}
RowSeqs == UNION {[1..n -> RowUpperBounds \X RowRates] : n \in 1..MaxRanges}

\* the brackets the loader builds without an error
LoadedBrackets == {b \in {load_tax_bracket(rows) : rows \in RowSeqs} : b.status = "ok"}

Amounts == {0 - 5 * ONE, 0 - 2 * ONE, 0, ONE, 2 * ONE, 3 * ONE, 5 * ONE, 7 * ONE}
Deductions == {0 - 2 * ONE, 0, 2 * ONE}
Margins == {0 - ONE, 0, ONE, 3 * ONE}

(* ------------------- construction of a bracket ------------------------- *)
InitBracket ==
    /\ pending = <<>>
    /\ bracket = NoBracket
    /\ ev = IdleEv /\ rv = IdleRv /\ fod = IdleFod /\ sec = IdleSec

\* TaxRange(lower_bound, upper_bound, percent), one argument of TaxBracket(...)
NewTaxRange(lower_bound, upper_bound, percent) ==
    /\ bracket.status = "none"
    /\ Len(pending) < MaxRanges
    /\ LET tr == TaxRange(lower_bound, upper_bound, percent)
       IN  IF TaxRangeAsserts(tr)
           THEN /\ pending' = Append(pending, tr)
                /\ UNCHANGED bracket
           ELSE /\ bracket' = [NoBracket EXCEPT !.status = "AssertionError"]
                /\ UNCHANGED pending
    /\ UNCHANGED <<ev, rv, fod, sec>>

\* TaxBracket(*pending)
NewTaxBracket ==
    /\ bracket.status = "none"
    /\ bracket' = TaxBracket(pending)
    /\ UNCHANGED <<pending, ev, rv, fod, sec>>

NextBracket ==
    \/ \E l \in BoundArgs, u \in BoundArgs, p \in PercentArgs : NewTaxRange(l, u, p)
    \/ NewTaxBracket

SpecBracket == InitBracket /\ [][NextBracket]_vars


(* ------------------------ claims: construction ------------------------- *)
\* a finite amount x lies in the range [lower_bound, upper_bound)
Holds(tr, x) == tr.lower_bound <= x /\ x < tr.upper_bound

\* amounts probed for coverage: the bounds themselves and points around them
Probes == {0, ONE, 2 * ONE, 3 * ONE, 5 * ONE, 5 * ONE + 1, 9 * ONE}

\* C2: a constructed bracket is the table handed in, starts at 0, ends at
\* +infinity and has ranges[i].upper = ranges[i+1].lower throughout, so that
\* every amount >= 0 lies in exactly one of its ranges (no gap, no overlap);
\* a table without these properties is never accepted.
C2_ConstructedIsGapless ==
    bracket.status = "ok" =>
        LET trs == bracket.tax_ranges
        IN  /\ trs = pending
            /\ Len(trs) >= 1
            /\ trs[1].lower_bound = 0
            /\ trs[Len(trs)].upper_bound = Inf
            /\ \A i \in 1..(Len(trs) - 1) : trs[i].upper_bound = trs[i + 1].lower_bound
            /\ \A x \in Probes : Cardinality({i \in 1..Len(trs) : Holds(trs[i], x)}) = 1

\* C2 witness: a table of three ranges with distinct bounds was accepted
C2_Witness ==
    /\ bracket.status = "ok"
    /\ Len(bracket.tax_ranges) = 3
    /\ bracket.tax_ranges[1].upper_bound = 2 * ONE
    /\ bracket.tax_ranges[2].upper_bound = 5 * ONE

(* --------------------------- tax and fast_tax -------------------------- *)
InitTax ==
    /\ bracket \in LoadedBrackets
    /\ pending = bracket.tax_ranges
    /\ \E a \in Amounts, d \in Deductions, m \in Margins :
          ev = [IdleEv EXCEPT !.full_amount = a, !.deduction = d, !.margin = m]
    /\ rv = IdleRv /\ fod = IdleFod /\ sec = IdleSec

\* a walk that consumes the range it has just taxed
CallTax_ConsumesRanges ==
    /\ bracket.status = "ok"
    /\ "tax" \notin ev.called
    /\ ev' = [ev EXCEPT !.called = @ \cup {"tax"},
                        !.result = TaxBracket_tax(bracket.tax_ranges, ev.full_amount,
                                                  ev.deduction, ev.margin)]
    /\ bracket' = [bracket EXCEPT !.tax_ranges = SubSeq(@, 2, Len(@))]
    /\ UNCHANGED <<pending, rv, fod, sec>>

CallTax ==
    /\ bracket.status = "ok"
    /\ "tax" \notin ev.called
    /\ ev' = [ev EXCEPT !.called = @ \cup {"tax"},
                        !.result = TaxBracket_tax(bracket.tax_ranges, ev.full_amount,
                                                  ev.deduction, ev.margin)]
    /\ UNCHANGED <<pending, bracket, rv, fod, sec>>

CallFastTax ==
    /\ bracket.status = "ok"
    /\ "fast_tax" \notin ev.called
    /\ ev' = [ev EXCEPT !.called = @ \cup {"fast_tax"},
                        !.fast = fast_tax(bracket, ev.full_amount, ev.deduction, ev.margin)]
    /\ UNCHANGED <<pending, bracket, rv, fod, sec>>

NextTax == CallTax \/ CallFastTax

SpecTax == InitTax /\ [][NextTax]_vars


(* ----------------------- claims: tax and fast_tax ---------------------- *)
\* C1: for every accepted bracket and all full_amount, deduction and margin,
\* fast_tax(...) equals tax(...).tax_paid.
C1_FastEqualsFull ==
    ev.called = {"tax", "fast_tax"} => ev.fast = ev.result.tax_paid

\* the right-hand side of the margin identity, two evaluations at margin 0
MarginDifference ==
    TaxBracket_tax(bracket.tax_ranges, ev.full_amount + ev.margin, ev.deduction, 0).tax_paid
      - TaxBracket_tax(bracket.tax_ranges, ev.margin, ev.deduction, 0).tax_paid

C4_Monotone ==
    "tax" \in ev.called =>
        \A a2 \in Amounts :
            ev.full_amount <= a2 =>
                ev.result.tax_paid
                  <= TaxBracket_tax(bracket.tax_ranges, a2, ev.deduction, ev.margin).tax_paid


(* ------------------------ TaxBracket.reverse_tax ----------------------- *)
RevFinals == {0 - (5 * ONE) \div 2, 0, ONE, 3 * ONE, 5 * ONE}
RevDeductions == {0, 2 * ONE}
RevMargins == {0 - ONE, 0, 4 * ONE}
Epsilons == {ONE \div 100, ONE}

\* the state on entry to the loop: guess = final_amount
InitReverse ==
    /\ bracket \in LoadedBrackets
    /\ pending = bracket.tax_ranges
    /\ \E x \in RevFinals, d \in RevDeductions, m \in RevMargins,
          e \in Epsilons, n \in 0..MaxIters :
          rv = [pc |-> "loop", final_amount |-> x, deduction |-> d, margin |-> m,
                epsilon |-> e, iters |-> n, i |-> 0, guess |-> x,
                converged |-> FALSE, warnings |-> 0]
    /\ ev = IdleEv /\ fod = IdleFod /\ sec = IdleSec

\* a loop body that moves the guess by half of what it is off
reverse_step_Damped(trs, guess, final_amount, deduction, margin) ==
    LET leftover == remaining(TaxBracket_tax(trs, guess, deduction, margin))
        off == final_amount - leftover
    IN  [off |-> off, guess |-> guess + off \div 2]

\* what the loop body does to the guess
reverse_step(trs, guess, final_amount, deduction, margin) ==
    LET leftover == remaining(TaxBracket_tax(trs, guess, deduction, margin))
        off == final_amount - leftover
    IN  [off |-> off, guess |-> guess + off]

\* one pass of `for i in range(iters)`, with its early return
ReverseTaxIterate_NoMargin ==
    /\ rv.pc = "loop"
    /\ rv.i < rv.iters
    /\ LET st == reverse_step(bracket.tax_ranges, rv.guess, rv.final_amount,
                              rv.deduction, 0)
       IN  rv' = IF Abs(st.off) < rv.epsilon
                 THEN [rv EXCEPT !.guess = st.guess, !.pc = "returned",
                                 !.converged = TRUE]
                 ELSE [rv EXCEPT !.guess = st.guess, !.i = @ + 1]
    /\ UNCHANGED <<pending, bracket, ev, fod, sec>>
ReverseTaxIterate ==
    /\ rv.pc = "loop"
    /\ rv.i < rv.iters
    /\ LET st == reverse_step(bracket.tax_ranges, rv.guess, rv.final_amount,
                              rv.deduction, rv.margin)
       IN  rv' = IF Abs(st.off) < rv.epsilon
                 THEN [rv EXCEPT !.guess = st.guess, !.pc = "returned",
                                 !.converged = TRUE]
                 ELSE [rv EXCEPT !.guess = st.guess, !.i = @ + 1]
    /\ UNCHANGED <<pending, bracket, ev, fod, sec>>

\* the loop ran out: logging.warning(...), return guess
ReverseTaxGiveUp_Restarts ==
    /\ rv.pc = "loop"
    /\ rv.i = rv.iters
    /\ rv' = [rv EXCEPT !.i = 0, !.guess = rv.final_amount]
    /\ UNCHANGED <<pending, bracket, ev, fod, sec>>
ReverseTaxGiveUp_Raises ==
    /\ rv.pc = "loop"
    /\ rv.i = rv.iters
    /\ rv' = [rv EXCEPT !.pc = "raised"]
    /\ UNCHANGED <<pending, bracket, ev, fod, sec>>
ReverseTaxGiveUp ==
    /\ rv.pc = "loop"
    /\ rv.i = rv.iters
    /\ rv' = [rv EXCEPT !.pc = "returned", !.warnings = @ + 1]
    /\ UNCHANGED <<pending, bracket, ev, fod, sec>>

NextReverse == ReverseTaxIterate \/ ReverseTaxGiveUp

SpecReverse == InitReverse /\ [][NextReverse]_vars

(* ------------------------- claims: reverse_tax ------------------------- *)
\* what is left of the returned amount after tax, less the amount asked for
RoundTripError ==
    Abs(remaining(TaxBracket_tax(bracket.tax_ranges, rv.guess, rv.deduction, rv.margin))
          - rv.final_amount)

\* C5 as stated: for every x, d, m the value r returned by reverse_tax has
\* |tax(r, d, m).remaining() - x| < epsilon.
C5_RoundTrip_Original ==
    rv.pc = "returned" => RoundTripError < rv.epsilon

\* C5 amended: when reverse_tax returns from its convergence test (an
\* iteration saw |off| < epsilon) and final_amount >= 0 or margin <= 0, the
\* returned r has |tax(r, d, m).remaining() - x| < epsilon.
C5_RoundTrip ==
    ( /\ rv.pc = "returned"
      /\ rv.converged
      /\ (rv.final_amount >= 0 \/ rv.margin <= 0) )
    => RoundTripError < rv.epsilon

\* C5 witness: a return from the convergence test in the third pass, in a
\* bracket that taxed the amount, with a positive margin
C5_Witness ==
    /\ rv.pc = "returned" /\ rv.converged
    /\ rv.i = 2
    /\ rv.margin > 0
    /\ rv.guess > rv.final_amount

\* the guess after k updates, and the residual seen in pass k (from 0)
RECURSIVE RevGuess(_)
RevGuess(k) ==
    IF k = 0 THEN rv.final_amount
    ELSE reverse_step(bracket.tax_ranges, RevGuess(k - 1), rv.final_amount,
                      rv.deduction, rv.margin).guess
RevOff(k) ==
    reverse_step(bracket.tax_ranges, RevGuess(k), rv.final_amount,
                 rv.deduction, rv.margin).off
NeverWithinEpsilon == \A k \in 0..(rv.iters - 1) : Abs(RevOff(k)) >= rv.epsilon

\* C6: when all `iters` passes run without |off| < epsilon, reverse_tax does
\* not raise: it logs one warning and returns the guess after exactly `iters`
\* updates (final_amount itself for iters = 0).
C6_DegradedReturn ==
    /\ rv.pc \in {"idle", "loop", "returned"}
    /\ (rv.pc = "loop" /\ rv.i = rv.iters) => NeverWithinEpsilon
    /\ (rv.pc = "returned" /\ NeverWithinEpsilon) =>
          /\ rv.warnings = 1
          /\ ~rv.converged
          /\ rv.i = rv.iters
          /\ rv.guess = RevGuess(rv.iters)

\* C6 witness: three passes without convergence, then the degraded return
C6_Witness ==
    /\ rv.pc = "returned" /\ ~rv.converged
    /\ rv.iters = 3 /\ rv.warnings = 1
    /\ rv.guess # rv.final_amount


(* ------------------------------- igwad --------------------------------- *)
\* the float nearest to the decimal n / d
Lit(n, d) == RoundDiv(n * ONE, d)

\* a Python int used in float arithmetic
IntToFloat(n) == n * ONE

ReturnRates == {0 - ONE, 0, ONE \div 10}
StartingAmounts == {0, ONE, 10 * ONE}
SolverEpsilons == {ONE \div 100, 2 * ONE}

\* the periods taken in the other order: grow first, then withdraw
RECURSIVE igwad_GrowsFirst(_, _, _, _)
igwad_GrowsFirst(starting_amount, years, dist, return_rate) ==
    IF years <= 0 THEN starting_amount
    ELSE Mul(igwad_GrowsFirst(starting_amount, years - 1, dist, return_rate),
             ONE + return_rate) - dist

\* `years` passes of: amount -= dist; amount *= (1 + return_rate)
RECURSIVE igwad(_, _, _, _)
igwad(starting_amount, years, dist, return_rate) ==
    IF years <= 0 THEN starting_amount
    ELSE Mul(igwad(starting_amount, years - 1, dist, return_rate) - dist,
             ONE + return_rate)

\* 8629272 ** return_rate, tabulated for the return rates of the model
pow_8629272(return_rate) ==
    CASE return_rate = 0 -> ONE
      [] return_rate = ONE \div 10 -> Lit(49385, 10000)
      [] return_rate = 0 - ONE -> Lit(1, 8629272)

\* 1.1543 ** years
RECURSIVE pow_11543(_)
pow_11543(years) ==
    IF years = 0 THEN ONE ELSE Mul(pow_11543(years - 1), Lit(11543, 10000))

gamma(return_rate) == Mul(Lit(8805, 10000), pow_8629272(return_rate))
kappa(years) == Mul(Lit(6444, 10000), pow_11543(years))

\* 1 / return_rate + 1, the divisor of the floor withdrawal
min_dist_divisor(return_rate) == Div(ONE, return_rate) + ONE

\* 0 if return_rate == 0 else starting_amount / (1 / return_rate + 1);
\* the caller raises ZeroDivisionError when the divisor is 0
min_dist(starting_amount, return_rate) ==
    IF return_rate = 0 THEN 0
    ELSE Div(starting_amount, min_dist_divisor(return_rate))

min_dist_raises(return_rate) ==
    return_rate # 0 /\ min_dist_divisor(return_rate) = 0

(* ----------------------- find_optimal_distribution --------------------- *)
\* the state on entry to the loop
InitFixed ==
    /\ \E S \in StartingAmounts, r \in ReturnRates, N \in 0..MaxYears,
          n \in 0..MaxSolverIters, e \in SolverEpsilons :
          fod = [pc |-> "iterating", starting_amount |-> S, return_rate |-> r,
                 years |-> N, iters |-> n, epsilon |-> e, i |-> 0,
                 prior_guess |-> 0, prior_ending |-> S,
                 amount |-> 0, dist |-> 0, sims |-> 0, returned |-> FALSE]
    /\ pending = <<>> /\ bracket = NoBracket
    /\ ev = IdleEv /\ rv = IdleRv /\ sec = IdleSec

\* a pass that steps from 0 instead of from the guess before
fod_pass_ForgetsGuess(f) ==
    LET guess == Div(f.prior_ending, Mul(gamma(f.return_rate), kappa(f.years)))
        dist == min_dist(f.starting_amount, f.return_rate) + guess
    IN  [guess |-> guess, dist |-> dist,
         amount |-> igwad(f.starting_amount, f.years, dist, f.return_rate)]

\* lines 21-27 of one pass, for a return rate whose floor withdrawal exists
fod_pass(f) ==
    LET guess == f.prior_guess
                   + Div(f.prior_ending, Mul(gamma(f.return_rate), kappa(f.years)))
        dist == min_dist(f.starting_amount, f.return_rate) + guess
    IN  [guess |-> guess, dist |-> dist,
         amount |-> igwad(f.starting_amount, f.years, dist, f.return_rate)]

\* one pass of `for i in range(iters)`.  gamma * kappa is positive, so the
\* division of line 21 never fails; the one of line 23 does for rate -1.
FodIterate_ReturnsGuess ==
    /\ fod.pc = "iterating"
    /\ fod.i < fod.iters
    /\ IF min_dist_raises(fod.return_rate)
       THEN fod' = [fod EXCEPT !.pc = "ZeroDivisionError"]
       ELSE LET ps == fod_pass(fod)
                f1 == [fod EXCEPT !.prior_guess = ps.guess, !.amount = ps.amount,
                                  !.sims = @ + 1]
            IN  fod' = IF Abs(ps.amount) > Abs(fod.prior_ending)
                       THEN [f1 EXCEPT !.pc = "diverged"]
                       ELSE IF Abs(ps.amount) < fod.epsilon
                       THEN [f1 EXCEPT !.pc = "converged", !.dist = ps.guess,
                                       !.returned = TRUE]
                       ELSE [f1 EXCEPT !.prior_ending = ps.amount, !.i = @ + 1]
    /\ UNCHANGED <<pending, bracket, ev, rv, sec>>
FodIterate_ConvergenceFirst ==
    /\ fod.pc = "iterating"
    /\ fod.i < fod.iters
    /\ IF min_dist_raises(fod.return_rate)
       THEN fod' = [fod EXCEPT !.pc = "ZeroDivisionError"]
       ELSE LET ps == fod_pass(fod)
                f1 == [fod EXCEPT !.prior_guess = ps.guess, !.amount = ps.amount,
                                  !.sims = @ + 1]
            IN  fod' = IF Abs(ps.amount) < fod.epsilon
                       THEN [f1 EXCEPT !.pc = "converged", !.dist = ps.dist,
                                       !.returned = TRUE]
                       ELSE IF Abs(ps.amount) > Abs(fod.prior_ending)
                       THEN [f1 EXCEPT !.pc = "diverged"]
                       ELSE [f1 EXCEPT !.prior_ending = ps.amount, !.i = @ + 1]
    /\ UNCHANGED <<pending, bracket, ev, rv, sec>>
FodIterate ==
    /\ fod.pc = "iterating"
    /\ fod.i < fod.iters
    /\ IF min_dist_raises(fod.return_rate)
       THEN fod' = [fod EXCEPT !.pc = "ZeroDivisionError"]
       ELSE LET ps == fod_pass(fod)
                f1 == [fod EXCEPT !.prior_guess = ps.guess, !.amount = ps.amount,
                                  !.sims = @ + 1]
            IN  fod' = IF Abs(ps.amount) > Abs(fod.prior_ending)
                       THEN [f1 EXCEPT !.pc = "diverged"]
                       ELSE IF Abs(ps.amount) < fod.epsilon
                       THEN [f1 EXCEPT !.pc = "converged", !.dist = ps.dist,
                                       !.returned = TRUE]
                       ELSE [f1 EXCEPT !.prior_ending = ps.amount, !.i = @ + 1]
    /\ UNCHANGED <<pending, bracket, ev, rv, sec>>

\* the loop ran out: raise RecursionError("Didn't finish ...")
FodExhaust ==
    /\ fod.pc = "iterating"
    /\ fod.i = fod.iters
    /\ fod' = [fod EXCEPT !.pc = "exhausted"]
    /\ UNCHANGED <<pending, bracket, ev, rv, sec>>

NextFixed == FodIterate \/ FodExhaust

SpecFixed == InitFixed /\ [][NextFixed]_vars

(* ----------------- claims: find_optimal_distribution ------------------- *)
\* C7: a value dist returned by find_optimal_distribution leaves, after N
\* periods of igwad(S, N, dist, r), a balance of magnitude < epsilon.
C7_ReturnedDistDrains ==
    fod.returned =>
        Abs(igwad(fod.starting_amount, fod.years, fod.dist, fod.return_rate))
          < fod.epsilon

\* C7 witness: a return after several passes, with a positive return rate
\* (so that the floor withdrawal is part of dist) and the small epsilon
C7_Witness ==
    /\ fod.pc = "converged" /\ fod.returned
    /\ fod.i >= 2
    /\ fod.return_rate > 0
    /\ fod.epsilon = ONE \div 100
    /\ fod.dist > 0

\* C8: every call ends as converged, diverged or exhausted and is iterating
\* until then; nothing runs after a terminal outcome; iters = 0 is exhausted
\* at once.
C8_ThreeOutcomes ==
    /\ fod.pc \in {"idle", "iterating", "converged", "diverged", "exhausted"}
    /\ (fod.pc = "exhausted" => fod.i = fod.iters)
    /\ (fod.pc # "idle" /\ fod.pc # "iterating" /\ fod.iters = 0) => fod.pc = "exhausted"

\* C9: a pass whose simulated |amount| exceeds the |prior_ending| it is
\* compared with raises the divergence error at once and returns nothing,
\* also when that |amount| is below epsilon; no other pass raises it.
C9_DivergenceFirst ==
    [][ (fod.pc = "iterating" /\ fod'.sims = fod.sims + 1) =>
            /\ (Abs(fod'.amount) > Abs(fod.prior_ending)) <=> (fod'.pc = "diverged")
            /\ fod'.pc = "diverged" => ~fod'.returned ]_vars

\* C9 witness: divergence raised although the residual is below epsilon
C9_Witness ==
    /\ fod.pc = "diverged"
    /\ Abs(fod.amount) > Abs(fod.prior_ending)
    /\ Abs(fod.amount) < fod.epsilon
    /\ ~fod.returned


(* ------------------- find_optimal_distribution_secant ------------------ *)
\* tolerances: two units of the arithmetic's last place (the analogue of
\* epsilon = 1e-12 for a balance of 1e4 in doubles), 0.01 (the default), 2.0
SecantEpsilons == {2, ONE \div 100, 2 * ONE}

IdleSecant == [pc |-> "called", starting_amount |-> 0, return_rate |-> 0, years |-> 0,
               iters |-> 0, epsilon |-> 0, min_dist |-> 0,
               p0 |-> 0, p1 |-> 0, q0 |-> 0, q1 |-> 0, itr |-> 0,
               result |-> 0, returned |-> FALSE]

InitSecant ==
    /\ \E S \in StartingAmounts, r \in ReturnRates, N \in 0..MaxYears,
          n \in 0..MaxSolverIters, e \in SecantEpsilons :
          sec = [IdleSecant EXCEPT !.starting_amount = S, !.return_rate = r,
                                   !.years = N, !.iters = n, !.epsilon = e]
    /\ pending = <<>> /\ bracket = NoBracket
    /\ ev = IdleEv /\ rv = IdleRv /\ fod = IdleFod

\* my_igwad(x): the balance left when min_dist + x is withdrawn each period
my_igwad(c, x) ==
    IF x = NaN THEN NaN
    ELSE igwad(c.starting_amount, c.years, c.min_dist + x, c.return_rate)

\* lines 45-54 and the entry of scipy.optimize.newton (secant method): its
\* argument checks, the two first evaluations and their ordering
SecantCall_NoShortCircuit ==
    /\ sec.pc = "called"
    /\ sec' =
         IF min_dist_raises(sec.return_rate) \/ sec.years = 0
         THEN [sec EXCEPT !.pc = "ZeroDivisionError"]
         ELSE LET md == min_dist(sec.starting_amount, sec.return_rate)
                  c == [sec EXCEPT !.min_dist = md]
                  initial_guess == Div(sec.starting_amount, IntToFloat(sec.years))
                  prior_ending == my_igwad(c, initial_guess)
                  second_guess == initial_guess
                                    + Div(prior_ending, IntToFloat(sec.years))
                  f0 == my_igwad(c, initial_guess)
                  f1 == my_igwad(c, second_guess)
              IN  IF sec.epsilon <= 0 \/ sec.iters < 1 \/ second_guess = initial_guess
                  THEN [c EXCEPT !.pc = "ValueError"]
                  ELSE IF Abs(f1) < Abs(f0)
                  THEN [c EXCEPT !.pc = "secant", !.p0 = second_guess,
                                 !.p1 = initial_guess, !.q0 = f1, !.q1 = f0]
                  ELSE [c EXCEPT !.pc = "secant", !.p0 = initial_guess,
                                 !.p1 = second_guess, !.q0 = f0, !.q1 = f1]
    /\ UNCHANGED <<pending, bracket, ev, rv, fod>>
SecantCall ==
    /\ sec.pc = "called"
    /\ sec' =
         IF sec.starting_amount = 0
         THEN [sec EXCEPT !.pc = "returned", !.result = 0, !.returned = TRUE]
         ELSE IF min_dist_raises(sec.return_rate) \/ sec.years = 0
         THEN [sec EXCEPT !.pc = "ZeroDivisionError"]
         ELSE LET md == min_dist(sec.starting_amount, sec.return_rate)
                  c == [sec EXCEPT !.min_dist = md]
                  initial_guess == Div(sec.starting_amount, IntToFloat(sec.years))
                  prior_ending == my_igwad(c, initial_guess)
                  second_guess == initial_guess
                                    + Div(prior_ending, IntToFloat(sec.years))
                  f0 == my_igwad(c, initial_guess)
                  f1 == my_igwad(c, second_guess)
              IN  IF sec.epsilon <= 0 \/ sec.iters < 1 \/ second_guess = initial_guess
                  THEN [c EXCEPT !.pc = "ValueError"]
                  ELSE IF Abs(f1) < Abs(f0)
                  THEN [c EXCEPT !.pc = "secant", !.p0 = second_guess,
                                 !.p1 = initial_guess, !.q0 = f1, !.q1 = f0]
                  ELSE [c EXCEPT !.pc = "secant", !.p0 = initial_guess,
                                 !.p1 = second_guess, !.q0 = f0, !.q1 = f1]
    /\ UNCHANGED <<pending, bracket, ev, rv, fod>>

\* the secant step from (p0, q0), (p1, q1); NaN when the float division is
\* by 0.0 (numpy floats: inf or nan, no exception)
secant_p(p0, q0, p1, q1) ==
    IF p1 = NaN \/ q1 = NaN \/ p0 = NaN \/ q0 = NaN THEN NaN
    ELSE IF Abs(q1) > Abs(q0)
    THEN LET ratio == Div(0 - q0, q1)
         IN  IF ONE + ratio = 0 THEN NaN
             ELSE Div(Mul(ratio, p1) + p0, ONE + ratio)
    ELSE LET ratio == Div(0 - q1, q0)
         IN  IF ONE + ratio = 0 THEN NaN
             ELSE Div(Mul(ratio, p0) + p1, ONE + ratio)

\* np.isclose(p, p1, rtol=0, atol=tol)
isclose(p, p1, tol) == p # NaN /\ p1 # NaN /\ Abs(p - p1) <= tol

\* one pass of newton's `for itr in range(maxiter)`
SecantIterate ==
    /\ sec.pc = "secant"
    /\ sec.itr < sec.iters
    /\ sec' =
         IF sec.q1 = sec.q0 /\ sec.q1 # NaN
         THEN IF sec.p1 # sec.p0
              THEN [sec EXCEPT !.pc = "RuntimeError"]
              ELSE [sec EXCEPT !.pc = "returned", !.returned = TRUE,
                               !.result = sec.min_dist + Div(sec.p1 + sec.p0, 2 * ONE)]
         ELSE LET p == secant_p(sec.p0, sec.q0, sec.p1, sec.q1)
              IN  IF isclose(p, sec.p1, sec.epsilon)
                  THEN [sec EXCEPT !.pc = "returned", !.returned = TRUE,
                                   !.result = sec.min_dist + p]
                  ELSE [sec EXCEPT !.p0 = sec.p1, !.q0 = sec.q1, !.p1 = p,
                                   !.q1 = my_igwad(sec, p), !.itr = @ + 1]
    /\ UNCHANGED <<pending, bracket, ev, rv, fod>>

SecantFail_ReturnsLast ==
    /\ sec.pc = "secant"
    /\ sec.itr = sec.iters
    /\ sec' = [sec EXCEPT !.pc = "returned", !.returned = TRUE,
                          !.result = sec.min_dist + sec.p1]
    /\ UNCHANGED <<pending, bracket, ev, rv, fod>>
\* the loop ran out: raise RuntimeError("Failed to converge ...")
SecantFail ==
    /\ sec.pc = "secant"
    /\ sec.itr = sec.iters
    /\ sec' = [sec EXCEPT !.pc = "RuntimeError"]
    /\ UNCHANGED <<pending, bracket, ev, rv, fod>>

NextSecant == SecantCall \/ SecantIterate \/ SecantFail

SpecSecant == InitSecant /\ [][NextSecant]_vars

(* --------------- claims: find_optimal_distribution_secant -------------- *)
\* C10: whenever find_optimal_distribution_secant(S, r, N, iters, epsilon)
\* returns dist for a positive horizon N, |igwad(S, N, dist, r)| < epsilon.
C10_SecantDrains ==
    (sec.returned /\ sec.years > 0) =>
        Abs(igwad(sec.starting_amount, sec.years, sec.result, sec.return_rate))
          < sec.epsilon


\* C11: find_optimal_distribution_secant(0, r, N) returns 0 for every r and
\* N: no division is evaluated (no ZeroDivisionError for r = -1 or N = 0, no
\* floor withdrawal computed) and the root-finder is never entered.
C11_ZeroBalance ==
    (sec.pc # "idle" /\ sec.starting_amount = 0) =>
        /\ sec.pc \in {"called", "returned"}
        /\ sec.pc = "returned" => (sec.returned /\ sec.result = 0)
        /\ sec.min_dist = 0 /\ sec.itr = 0
        /\ sec.p0 = 0 /\ sec.p1 = 0 /\ sec.q0 = 0 /\ sec.q1 = 0

\* C11 witness: the return of 0 for a return rate and a horizon that would
\* both divide by zero
C11_Witness ==
    /\ sec.pc = "returned" /\ sec.returned /\ sec.result = 0
    /\ sec.starting_amount = 0
    /\ sec.return_rate = 0 - ONE
    /\ sec.years = 0


ZeroGuard == ev.full_amount - ev.deduction + ev.margin <= 0 \/ ev.margin < 0

\* C13: whenever taxable_amount + margin <= 0 or margin < 0, tax returns the
\* zero result (tax_paid 0, empty breakdown) that still records full_amount,
\* taxable_amount and margin, and fast_tax returns 0.
C13_ZeroResult ==
    ZeroGuard =>
        /\ "tax" \in ev.called =>
              ev.result = TaxResult(ev.full_amount, ev.full_amount - ev.deduction,
                                    ev.margin, 0, <<>>)
        /\ "fast_tax" \in ev.called => ev.fast = 0

\* C13 witness: both evaluations made with a negative margin on an amount
\* that a margin of 0 would tax
C13_Witness ==
    /\ ev.called = {"tax", "fast_tax"}
    /\ ev.margin < 0
    /\ ev.full_amount - ev.deduction + ev.margin > 0
    /\ TaxBracket_tax(bracket.tax_ranges, ev.full_amount, ev.deduction, 0).tax_paid > 0
    /\ ev.result.tax_paid = 0 /\ ev.result.breakdown = <<>> /\ ev.fast = 0
    /\ ev.result.full_amount = ev.full_amount /\ ev.result.margin = ev.margin

(* ------------------- @functools.cache on reverse_tax ------------------- *)
\* the defaults of reverse_tax's signature
DefaultMargin == 0
DefaultEpsilon == ONE \div 100
DefaultIters == 20
ParamNames == <<"final_amount", "deduction", "margin", "epsilon", "iters">>
ParamDefaults == <<0, 0, DefaultMargin, DefaultEpsilon, DefaultIters>>

\* functools' key of a call: the positional arguments as passed, followed by
\* the keyword arguments as passed (defaults are not filled in)
make_key(pos, kw) == [pos |-> pos, kw |-> kw]

\* the value parameter j of reverse_tax is bound to by the call behind key
bound_arg(key, j) ==
    IF j <= Len(key.pos) THEN key.pos[j]
    ELSE IF \E n \in 1..Len(key.kw) : key.kw[n][1] = ParamNames[j]
    THEN LET n == CHOOSE n \in 1..Len(key.kw) : key.kw[n][1] = ParamNames[j]
         IN  key.kw[n][2]
    ELSE ParamDefaults[j]

\* (final_amount, deduction, margin, epsilon, iters) of the call behind key
bound_args(key) == [j \in 1..5 |-> bound_arg(key, j)]

\* the body of reverse_tax from pass i on, with the current guess
RECURSIVE reverse_tax_from(_, _, _, _)
reverse_tax_from(trs, a, i, guess) ==
    IF i >= a[5] THEN guess
    ELSE LET st == reverse_step(trs, guess, a[1], a[2], a[3])
         IN  IF Abs(st.off) < a[4] THEN st.guess
             ELSE reverse_tax_from(trs, a, i + 1, st.guess)

\* reverse_tax(*bound_args): guess = final_amount, then the loop
reverse_tax(trs, a) == reverse_tax_from(trs, a, 0, a[1])

Threads == 1..MaxThreads
MemoFinals == {5 * ONE}

\* the ways the model's callers spell a call: deduction 0 throughout, the
\* margin left out, passed by position or passed by keyword
CallForms ==
    UNION {{make_key(<<x, 0>>, <<>>),
            make_key(<<x, 0, 0>>, <<>>),
            make_key(<<x, 0>>, << <<"margin", 0>> >>),
            make_key(<<x, 0, 4 * ONE>>, <<>>)} : x \in MemoFinals}

MemoBrackets == {b \in LoadedBrackets : Len(b.tax_ranges) = 1}

IdleFrame == [pc |-> "idle", key |-> make_key(<<>>, <<>>), after |-> FALSE,
              ran |-> FALSE, value |-> 0, ret |-> 0]

\* an empty cache, no call made yet
InitMemo ==
    /\ bracket \in MemoBrackets
    /\ pending = bracket.tax_ranges
    /\ rv = [pc |-> "memo", cache |-> <<>>, thr |-> [t \in Threads |-> IdleFrame],
             calls |-> 0, done |-> {}]
    /\ ev = IdleEv /\ fod = IdleFod /\ sec = IdleSec

\* thread t calls bracket.reverse_tax(...) spelled as key k; `after` notes
\* whether a call with the same five argument values has already returned
MemoCall(t, k) ==
    /\ rv.pc = "memo"
    /\ rv.thr[t].pc = "idle"
    /\ rv.calls < MaxCalls
    /\ rv' = [rv EXCEPT !.calls = @ + 1,
                        !.thr[t] = [IdleFrame EXCEPT !.pc = "lookup", !.key = k,
                                       !.after = bound_args(k) \in rv.done]]
    /\ UNCHANGED <<pending, bracket, ev, fod, sec>>

\* the wrapper's cache lookup: a hit returns the stored value
MemoLookup(t) ==
    /\ rv.pc = "memo"
    /\ rv.thr[t].pc = "lookup"
    /\ rv' = IF rv.thr[t].key \in DOMAIN rv.cache
             THEN [rv EXCEPT !.thr[t].pc = "idle",
                             !.thr[t].ret = rv.cache[rv.thr[t].key],
                             !.done = @ \cup {bound_args(rv.thr[t].key)}]
             ELSE [rv EXCEPT !.thr[t].pc = "compute"]
    /\ UNCHANGED <<pending, bracket, ev, fod, sec>>

\* a miss runs the function; it reads the bracket and its own locals only
MemoCompute_SeededByThread(t) ==
    /\ rv.pc = "memo"
    /\ rv.thr[t].pc = "compute"
    /\ LET a == bound_args(rv.thr[t].key)
       IN  rv' = [rv EXCEPT !.thr[t].pc = "store", !.thr[t].ran = TRUE,
                     !.thr[t].value = reverse_tax_from(bracket.tax_ranges, a, 0,
                                                       a[1] + t * ONE)]
    /\ UNCHANGED <<pending, bracket, ev, fod, sec>>
MemoCompute(t) ==
    /\ rv.pc = "memo"
    /\ rv.thr[t].pc = "compute"
    /\ rv' = [rv EXCEPT !.thr[t].pc = "store", !.thr[t].ran = TRUE,
                        !.thr[t].value = reverse_tax(bracket.tax_ranges,
                                                     bound_args(rv.thr[t].key))]
    /\ UNCHANGED <<pending, bracket, ev, fod, sec>>

\* cache[key] = result; return result
MemoStore(t) ==
    /\ rv.pc = "memo"
    /\ rv.thr[t].pc = "store"
    /\ rv' = [rv EXCEPT !.thr[t].pc = "idle", !.thr[t].ret = rv.thr[t].value,
                        !.cache = (rv.thr[t].key :> rv.thr[t].value) @@ @,
                        !.done = @ \cup {bound_args(rv.thr[t].key)}]
    /\ UNCHANGED <<pending, bracket, ev, fod, sec>>

NextMemo ==
    \E t \in Threads :
        \/ \E k \in CallForms : MemoCall(t, k)
        \/ MemoLookup(t)
        \/ MemoCompute(t)
        \/ MemoStore(t)

SpecMemo == InitMemo /\ [][NextMemo]_vars

(* ------------------- claims: the reverse_tax cache --------------------- *)
\* C14: reverse_tax is memoized per (final_amount, deduction, margin,
\* epsilon, iters): a call made after a call with the same five values has
\* returned does not run the iteration again, and a step never removes a
\* cache entry or changes its value.
C14_MemoizedPerArguments ==
    [][ rv.pc = "memo" =>
          /\ \A k \in DOMAIN rv.cache :
                k \in DOMAIN rv'.cache /\ rv'.cache[k] = rv.cache[k]
          /\ \A t \in Threads : rv'.thr[t].after => ~rv'.thr[t].ran ]_vars

Dollars(n) == (n \div 250) * ONE + RoundDiv((n % 250) * ONE, 250)
Cents(c) == (c \div 25000) * ONE + RoundDiv((c % 25000) * ONE, 25000)
Percent(n) == Lit(n, 100)

\* data/2021/single_tax.csv: upper_bound,rate with a blank last upper bound
single_tax_rows_2021 ==
    << <<Dollars(9950), Percent(10)>>, <<Dollars(40525), Percent(12)>>,
       <<Dollars(86375), Percent(22)>>, <<Dollars(164925), Percent(24)>>,
       <<Dollars(209425), Percent(32)>>, <<Dollars(523600), Percent(35)>>,
       <<NaN, Percent(37)>> >>

single_tax_bracket_2021 == load_tax_bracket(single_tax_rows_2021)
standard_deduction_2021 == Dollars(12550)

\* the amounts the test taxes, and the amounts at the bracket bounds
Amounts2021 ==
    {Dollars(n) : n \in {0, 5000, 50000, 100000, 200000, 300000, 600000,
                         9950, 40525, 86375, 164925, 209425, 523600}}

Init2021 ==
    /\ bracket = single_tax_bracket_2021
    /\ pending = bracket.tax_ranges
    /\ \E a \in Amounts2021, d \in {0, standard_deduction_2021},
          m \in {0, Dollars(10000)} :
          ev = [IdleEv EXCEPT !.full_amount = a, !.deduction = d, !.margin = m]
    /\ rv = IdleRv /\ fod = IdleFod /\ sec = IdleSec

Spec2021 == Init2021 /\ [][NextTax]_vars

\* tax_paid the test expects of amount a, both in dollars and cents
Expected2021(a) ==
    CASE a = Dollars(0) -> Cents(0)
      [] a = Dollars(5000) -> Cents(50000)
      [] a = Dollars(50000) -> Cents(674850)
      [] a = Dollars(100000) -> Cents(1802100)
      [] a = Dollars(200000) -> Cents(4482700)
      [] a = Dollars(300000) -> Cents(7954425)
      [] a = Dollars(600000) -> Cents(18607225)
      [] OTHER -> NaN

\* C16: on the 2021 single-filer bracket with deduction 0 and margin 0, tax
\* pays 0 on 0, 500.00 on 5000, 6748.50 on 50000, 18021.00 on 100000,
\* 44827.00 on 200000, 79544.25 on 300000 and 186072.25 on 600000.
C16_Values2021 ==
    ("tax" \in ev.called /\ ev.deduction = 0 /\ ev.margin = 0
       /\ Expected2021(ev.full_amount) # NaN) =>
        ev.result.tax_paid = Expected2021(ev.full_amount)

\* C16 witness: the tax of 300000, which has a share in six ranges and a
\* fraction of a dollar
C16_Witness ==
    /\ "tax" \in ev.called /\ ev.deduction = 0 /\ ev.margin = 0
    /\ ev.full_amount = Dollars(300000)
    /\ Len(ev.result.breakdown) = 6
    /\ ev.result.tax_paid = Cents(7954425)

(* ------------------ claims: deduction and remaining -------------------- *)
\* C17: with margin 0, tax(a, d).tax_paid = tax(a - d, 0).tax_paid for every
\* amount a and deduction d.
C17_DeductionReducesAmount ==
    ("tax" \in ev.called /\ ev.margin = 0) =>
        ev.result.tax_paid
          = TaxBracket_tax(bracket.tax_ranges, ev.full_amount - ev.deduction, 0, 0).tax_paid

\* C17 witness: a positive deduction taken off an amount that stays taxed,
\* and that changes the tax
C17_Witness ==
    /\ "tax" \in ev.called /\ ev.margin = 0
    /\ ev.deduction > 0
    /\ ev.result.tax_paid > 0
    /\ ev.result.tax_paid
         < TaxBracket_tax(bracket.tax_ranges, ev.full_amount, 0, 0).tax_paid

\* C18: for every result of tax, remaining() is the full_amount passed in
\* minus tax_paid (not the taxable amount minus tax_paid).
C18_RemainingOfFullAmount ==
    "tax" \in ev.called => remaining(ev.result) = ev.full_amount - ev.result.tax_paid

\* C18 witness: a result of the margin > 0 branch with a deduction, so that
\* the taxable amount differs from the full amount, and with tax paid
C18_Witness ==
    /\ "tax" \in ev.called
    /\ ev.margin > 0 /\ ev.deduction # 0
    /\ ev.result.tax_paid > 0
    /\ ev.result.taxable_amount # ev.full_amount
    /\ remaining(ev.result) = ev.full_amount - ev.result.tax_paid

(* ------------------------ termination of the solvers ------------------- *)
\* one call of reverse_tax (on a bracket of one or two ranges) or of
\* find_optimal_distribution; a running call always takes its next step
InitSolvers == (InitReverse /\ Len(bracket.tax_ranges) <= 2) \/ InitFixed

NextSolvers == NextReverse \/ NextFixed

SpecSolvers == InitSolvers /\ [][NextSolvers]_vars /\ WF_vars(NextSolvers)

\* the call has returned or raised
Terminated ==
    \/ rv.pc = "returned"
    \/ fod.pc \in {"converged", "diverged", "exhausted", "ZeroDivisionError"}

\* tax evaluations made so far by reverse_tax: one per pass
TaxEvaluations == rv.i + (IF rv.pc = "returned" /\ rv.converged THEN 1 ELSE 0)

WithinBudget ==
    /\ rv.pc # "idle" => TaxEvaluations <= rv.iters
    /\ fod.pc # "idle" => fod.sims <= fod.iters

\* C19: every call of reverse_tax and of find_optimal_distribution ends, and
\* until then reverse_tax has evaluated tax at most `iters` times and
\* find_optimal_distribution has run at most `iters` simulations.
C19_Terminates == []WithinBudget /\ <>Terminated

\* C19 witness: reverse_tax back from a bracket with a 100% top rate after
\* the largest number of passes, none of which converged
C19_Witness ==
    /\ rv.pc = "returned" /\ ~rv.converged
    /\ rv.iters = MaxIters /\ TaxEvaluations = MaxIters
    /\ bracket.tax_ranges[Len(bracket.tax_ranges)].percent = ONE
    /\ rv.guess > rv.final_amount

(* ------------------------------ the loader ----------------------------- *)
\* a bracket file read, its rows waiting in `pending`
InitLoader ==
    /\ pending \in RowSeqs
    /\ bracket = NoBracket
    /\ ev = IdleEv /\ rv = IdleRv /\ fod = IdleFod /\ sec = IdleSec

\* load_tax_bracket(file): the bracket built, or the error of the failed
\* assertion
LoadTaxBracket ==
    /\ bracket.status = "none"
    /\ pending \in RowSeqs
    /\ bracket' = load_tax_bracket(pending)
    /\ UNCHANGED <<pending, ev, rv, fod, sec>>

NextLoader == LoadTaxBracket

SpecLoader == InitLoader /\ [][NextLoader]_vars

\* u_i of the table: u_0 = 0, a blank cell is +infinity
UpperBoundOf(rows, i) ==
    IF i = 0 THEN 0 ELSE IF rows[i][1] = NaN THEN Inf ELSE rows[i][1]

\* the ranges [u_(i-1), u_i) are intervals and end at +infinity
ContiguousCover(rows) ==
    /\ \A i \in 1..Len(rows) : UpperBoundOf(rows, i - 1) <= UpperBoundOf(rows, i)
    /\ UpperBoundOf(rows, Len(rows)) = Inf

RECURSIVE SumOverRanges(_, _, _)
SumOverRanges(trs, i, total) ==
    IF i > Len(trs) THEN 0
    ELSE TaxRange_tax(trs[i], total) + SumOverRanges(trs, i + 1, total)

\* C21: for margin 0 and taxable_amount > 0, on every accepted bracket, the
\* walk that stops at the first range holding no amount pays the sum over
\* ALL ranges of rate * amount_in_range(taxable_amount).
C21_EarlyExitSound ==
    ("tax" \in ev.called /\ ev.margin = 0 /\ ev.full_amount - ev.deduction > 0) =>
        ev.result.tax_paid
          = SumOverRanges(bracket.tax_ranges, 1, ev.full_amount - ev.deduction)

RECURSIVE SumSeq(_, _)
SumSeq(q, i) == IF i > Len(q) THEN 0 ELSE q[i] + SumSeq(q, i + 1)

\* C22: in the margin == 0 branch breakdown[i] is rate_i times the amount
\* inside range i, the breakdown is no longer than the bracket and sums to
\* tax_paid; in the margin > 0 branch the breakdown is empty.
C22_Breakdown ==
    "tax" \in ev.called =>
        LET trs == bracket.tax_ranges
            bd == ev.result.breakdown
            taxable == ev.full_amount - ev.deduction
        IN  /\ ev.margin = 0 =>
                 /\ Len(bd) <= Len(trs)
                 /\ \A i \in 1..Len(bd) :
                       bd[i] = Mul(amount_in_range(trs[i], taxable), trs[i].percent)
                 /\ SumSeq(bd, 1) = ev.result.tax_paid
            /\ ev.margin > 0 => bd = <<>>

\* C22 witness: a breakdown over three ranges of which the first, untaxed,
\* has its own entry
C22_Witness ==
    /\ "tax" \in ev.called /\ ev.margin = 0
    /\ Len(ev.result.breakdown) = 3
    /\ ev.result.breakdown[1] = 0
    /\ ev.result.breakdown[2] > 0 /\ ev.result.breakdown[3] > 0
    /\ ev.result.tax_paid = ev.result.breakdown[2] + ev.result.breakdown[3]

(* ------------------ claims: the cumulative-tax array ------------------- *)
\* float comparisons: a comparison with nan is false
FLe(a, b) == a # NaN /\ b # NaN /\ a <= b
FEq(a, b) == a # NaN /\ b # NaN /\ a = b

\* the tax of fully occupying the ranges 1..i
RECURSIVE FullTaxBelow(_, _)
FullTaxBelow(trs, i) ==
    IF i = 0 THEN 0
    ELSE FAdd(FullTaxBelow(trs, i - 1),
              FMul(FSub(trs[i].upper_bound, trs[i].lower_bound), trs[i].percent))

\* C23: a constructed bracket of n ranges has n cumulative entries, the first
\* is 0, entry i is the tax of fully occupying the ranges below range i, and
\* the entries are non-decreasing.
C23_CumulativeArray ==
    bracket.status = "ok" =>
        LET trs == bracket.tax_ranges
            cum == bracket.cum_range_tax_amounts
        IN  /\ Len(cum) = Len(trs)
            /\ cum[1] = 0
            /\ \A i \in 1..Len(cum) : FEq(cum[i], FullTaxBelow(trs, i - 1))
            /\ \A i \in 1..(Len(cum) - 1) : FLe(cum[i], cum[i + 1])

(* ---------------------- claims: the simulation ------------------------- *)
\* the balances of a drawdown, period by period: balance 0 is the starting
\* amount, each later one is the one before less dist, times (1 + return_rate)
BalanceAfter(starting_amount, dist, return_rate) ==
    LET bal[k \in 0..MaxYears] ==
            IF k = 0 THEN starting_amount
            ELSE Mul(bal[k - 1] - dist, ONE + return_rate)
    IN  bal

\* the withdrawal of the pass find_optimal_distribution has just simulated
PassDist == min_dist(fod.starting_amount, fod.return_rate) + fod.prior_guess

\* C24: the balance igwad returns is the one after exactly `years` periods of
\* withdraw-then-grow, it is starting_amount when years = 0, and it is a
\* function of the four arguments alone.
C24_IgwadSemantics ==
    (fod.pc # "idle" /\ fod.sims >= 1) =>
        /\ fod.amount = BalanceAfter(fod.starting_amount, PassDist,
                                     fod.return_rate)[fod.years]
        /\ fod.years = 0 => fod.amount = fod.starting_amount

\* C24 witness: a simulation over two or more periods with growth and a
\* withdrawal, ending away from where it started
C24_Witness ==
    /\ fod.pc # "idle" /\ fod.sims >= 1
    /\ fod.years >= 2 /\ fod.return_rate > 0 /\ PassDist > 0
    /\ fod.amount # fod.starting_amount

\* C25: once a pass has computed the floor withdrawal, it was defined (the
\* division did not fail, whatever the return rate) and it keeps the balance
\* flat over the horizon: igwad(S, N, min_dist, r) = S.
C25_FloorKeepsFlat ==
    (fod.pc # "idle" /\ (fod.sims >= 1 \/ fod.pc = "ZeroDivisionError")) =>
        /\ fod.pc # "ZeroDivisionError"
        /\ igwad(fod.starting_amount, fod.years,
                 min_dist(fod.starting_amount, fod.return_rate),
                 fod.return_rate) = fod.starting_amount

(* --------------- a bracket in use: tax, fast_tax, reverse_tax ---------- *)
\* two-range brackets with the boundary at 2
UseBrackets ==
    {b \in LoadedBrackets : /\ Len(b.tax_ranges) = 2
                            /\ b.tax_ranges[1].upper_bound = 2 * ONE}

\* a constructed bracket, an empty reverse_tax cache, no call made yet
InitUse ==
    /\ bracket \in UseBrackets
    /\ pending = bracket.tax_ranges
    /\ \E m \in {0, ONE} :
          ev = [IdleEv EXCEPT !.full_amount = 7 * ONE, !.margin = m]
    /\ rv = [pc |-> "memo", cache |-> <<>>, thr |-> [t \in Threads |-> IdleFrame],
             calls |-> 0, done |-> {}]
    /\ fod = IdleFod /\ sec = IdleSec

\* one caller making tax, fast_tax and reverse_tax calls in any order
NextUse ==
    \/ CallTax
    \/ CallFastTax
    \/ \E k \in CallForms : MemoCall(1, k)
    \/ MemoLookup(1)
    \/ MemoCompute(1)
    \/ MemoStore(1)

SpecUse == InitUse /\ [][NextUse]_vars

\* C26: no step of a tax, fast_tax or reverse_tax call changes the bracket's
\* ranges (bounds and rates) or its cumulative-tax array; of the state that
\* outlives a call only the reverse_tax cache changes, and only by the store
\* that ends a computed call.
C26_BracketImmutable ==
    [][/\ bracket'.tax_ranges = bracket.tax_ranges
       /\ bracket'.cum_range_tax_amounts = bracket.cum_range_tax_amounts
       /\ bracket'.status = bracket.status
       /\ pending' = pending
       /\ rv'.cache # rv.cache => \E t \in Threads : rv.thr[t].pc = "store"]_vars

\* C26 witness: the three operations have all returned on a bracket that
\* still has its two ranges and two cumulative entries
C26_Witness ==
    /\ rv.pc = "memo" /\ DOMAIN rv.cache # {}
    /\ ev.called = {"tax", "fast_tax"} /\ ev.result.tax_paid > 0
    /\ Len(bracket.tax_ranges) = 2 /\ Len(bracket.cum_range_tax_amounts) = 2

(* ------------------- Account and its distributions -------------------- *)
\* BalanceChangeResult(start_amount, change_amount)
BalanceChangeResult(start_amount, change_amount) ==
    [start_amount |-> start_amount, change_amount |-> change_amount,
     end_amount |-> start_amount + change_amount]

\* Account._change(amount): the balance after the change
Account_change(balance, amount) == BalanceChangeResult(balance, amount).end_amount

\* Account.withdraw(amount)
withdraw(balance, amount) == Account_change(balance, 0 - amount)

\* the amount of the Distribution that create_distribution(amount) returns
create_distribution(balance, amount) == Min(Max(balance, 0), amount)

\* balances of an account and amounts asked of it; a drawdown year asks the
\* Roth account for expenses less the traditional distribution, which is
\* negative when the latter covers more than the expenses
AccountBalances == {0 - 3 * ONE, 0, ONE, 2 * ONE, 5 * ONE, 10 * ONE}
RequestedAmounts == {0 - 5 * ONE, 0 - ONE, 0, ONE, 3 * ONE, 7 * ONE, 12 * ONE}

\* Account(initial_amount)
InitAccount ==
    /\ \E b \in AccountBalances :
          sec = [pc |-> "account", amount |-> b, has_dist |-> FALSE, requested |-> 0,
                 dist |-> 0, start |-> b, takes |-> 0]
    /\ pending = <<>> /\ bracket = NoBracket
    /\ ev = IdleEv /\ rv = IdleRv /\ fod = IdleFod

\* dist = account.create_distribution(amount)
CreateDistribution(amount) ==
    /\ sec.pc = "account"
    /\ ~sec.has_dist
    /\ sec' = [sec EXCEPT !.has_dist = TRUE, !.requested = amount,
                          !.dist = create_distribution(sec.amount, amount),
                          !.start = sec.amount]
    /\ UNCHANGED <<pending, bracket, ev, rv, fod>>

\* dist.take(): account.withdraw(dist.amount)
Take ==
    /\ sec.pc = "account"
    /\ sec.has_dist
    /\ sec.takes < MaxTakes
    /\ sec' = [sec EXCEPT !.amount = withdraw(sec.amount, sec.dist), !.takes = @ + 1]
    /\ UNCHANGED <<pending, bracket, ev, rv, fod>>

NextAccount ==
    \/ \E a \in RequestedAmounts : CreateDistribution(a)
    \/ Take

SpecAccount == InitAccount /\ [][NextAccount]_vars

\* C27: for every requested amount and every balance the distribution's
\* amount is >= 0 and <= the balance it was created at, so that one take()
\* leaves a balance >= 0 and no higher than before.
C27_DistributionBounded ==
    (sec.pc = "account" /\ sec.has_dist) =>
        /\ 0 <= sec.dist /\ sec.dist <= sec.start
        /\ sec.takes = 1 => (0 <= sec.amount /\ sec.amount <= sec.start)

(* ----------------------- claims: the sign of tax ----------------------- *)
\* C28: for every accepted bracket and all full_amount, deduction and
\* margin, tax(...).tax_paid >= 0 and fast_tax(...) >= 0.
C28_TaxNonNegative ==
    /\ "tax" \in ev.called => ev.result.tax_paid >= 0
    /\ "fast_tax" \in ev.called => ev.fast >= 0

RevPremise == rv.final_amount >= 0 /\ rv.margin >= 0

\* C30: for final_amount >= 0 and margin >= 0 the guesses of reverse_tax start
\* at final_amount, each next one is final_amount + tax(guess, deduction,
\* margin).tax_paid, they never decrease, and the value returned (converged
\* or degraded) is never smaller than final_amount.
C30_GuessesAscend ==
    /\ []((RevPremise /\ rv.pc = "loop" /\ rv.i = 0) => rv.guess = rv.final_amount)
    /\ [][RevPremise =>
            /\ (rv.pc = "loop" /\ rv.i < rv.iters) =>
                  rv'.guess = rv.final_amount
                                + TaxBracket_tax(bracket.tax_ranges, rv.guess,
                                                 rv.deduction, rv.margin).tax_paid
            /\ rv'.guess >= rv.guess]_vars
    /\ []((RevPremise /\ rv.pc = "returned") => rv.guess >= rv.final_amount)

\* C30 witness: a degraded return after three passes that each raised the guess
C30_Witness ==
    /\ RevPremise /\ rv.margin > 0 /\ rv.deduction > 0
    /\ rv.pc = "returned" /\ ~rv.converged /\ rv.iters = 3
    /\ rv.guess > rv.final_amount + ONE

(* ----------------------------- whole program --------------------------- *)
\* one call at a time of any of the modelled entry points
Init == InitBracket \/ InitTax \/ InitReverse \/ InitFixed \/ InitSecant \/ InitMemo \/ Init2021 \/ InitLoader \/ InitUse \/ InitAccount

Next == NextBracket \/ NextTax \/ NextReverse \/ NextFixed \/ NextSecant \/ NextMemo \/ NextLoader \/ NextAccount

Spec == Init /\ [][Next]_vars

=============================================================================
